---- MODULE Spec2Model ----
(***************************************************************************)
(* Model of ArticleGenerator1.py, a Streamlit page.  Streamlit re-executes *)
(* the whole script, top to bottom, on every widget interaction; only      *)
(* st.session_state survives from one execution to the next.  One action   *)
(* of the model is one execution of the script: the widget values it sees, *)
(* the session fields it leaves behind and the page it renders.            *)
(* Text is a sequence of one-character strings, file data a sequence of    *)
(* byte values.                                                            *)
(***************************************************************************)
EXTENDS Integers, Sequences, FiniteSets

VARIABLES
    azure_api_key,      \* value of the password text input (line 43)
    uploaded_files,     \* value of the file uploader (line 69), in upload order
    combined_content,   \* st.session_state['combined_content']
    final_report,       \* st.session_state['final_report']
    button,             \* st.button(...) of the latest execution (line 81)
    llm,                \* the global llm of the latest execution: "client" or "unbound"
    outcome,            \* where the generate handler of the latest execution ended
    invoked,            \* crew.kickoff() was called in the latest execution
    raisedAt,           \* index of the file at which the loop raised, 0 if it did not
    appended,           \* the file_content values line 96 appended, per iteration
    shown,              \* messages on the page rendered by the latest execution
    download_offered,   \* st.download_button was rendered (line 166)
    doc                 \* paragraphs of the document built at lines 156-160

vars == <<azure_api_key, uploaded_files, combined_content, final_report, button,
          llm, outcome, invoked, raisedAt, appended, shown, download_offered, doc>>

session == <<combined_content, final_report>>

\* ---------------------------------------------------------------- bounds
MaxFiles == 2
MaxReportLen == 4

\* ---------------------------------------------------------------- text helpers
TextPlain == "text/plain"
DocxType == "application/vnd.openxmlformats-officedocument.wordprocessingml.document"
PdfType == "application/pdf"

Whitespace == {" ", "\n", "\t", "\r"}

\* str(i) for the file index of the header (f-string conversion, line 95)
DigitChar == <<"0", "1", "2", "3", "4", "5", "6", "7", "8", "9">>

RECURSIVE IntToStr(_)
IntToStr(n) ==
    IF n < 10 THEN <<DigitChar[n + 1]>>
    ELSE IntToStr(n \div 10) \o <<DigitChar[(n % 10) + 1]>>

\* the character of a code point, for the code points the inputs use
CodePointChar(cp) ==
    CASE cp = 10 -> "\n"
      [] cp = 32 -> " "
      [] cp = 45 -> "-"
      [] cp = 97 -> "a"
      [] cp = 98 -> "b"
      [] cp = 233 -> "e'"
      [] OTHER -> "?"

\* bytes.decode("utf-8") (line 91): [ok, text]; ok = FALSE is UnicodeDecodeError.
\* One-byte and two-byte sequences are decoded; 0xC0, 0xC1, a lead byte without
\* its continuation byte, a stray continuation byte and 0xF5..0xFF are invalid.
RECURSIVE Utf8Decode(_)
Utf8Decode(bytes) ==
    IF bytes = <<>> THEN [ok |-> TRUE, text |-> <<>>]
    ELSE LET b == Head(bytes) IN
         IF b < 128
         THEN LET r == Utf8Decode(Tail(bytes)) IN
              [ok |-> r.ok, text |-> <<CodePointChar(b)>> \o r.text]
         ELSE IF b >= 194 /\ b <= 223 /\ Len(bytes) >= 2
                 /\ bytes[2] >= 128 /\ bytes[2] <= 191
         THEN LET r == Utf8Decode(Tail(Tail(bytes))) IN
              [ok |-> r.ok,
               text |-> <<CodePointChar((b - 192) * 64 + (bytes[2] - 128))>> \o r.text]
         ELSE [ok |-> FALSE, text |-> <<>>]

\* sep.join(parts)
RECURSIVE Join(_, _)
Join(parts, sep) ==
    IF parts = <<>> THEN <<>>
    ELSE IF Len(parts) = 1 THEN parts[1]
    ELSE parts[1] \o sep \o Join(Tail(parts), sep)

\* read_docx: [ok, text]; ok = FALSE when DocxDocument(file) raises on a
\* malformed package
read_docx(file) ==
    IF file.wellformed
    THEN [ok |-> TRUE, text |-> Join(file.paragraphs, <<"\n">>)]
    ELSE [ok |-> FALSE, text |-> <<>>]

\* f"--- File {i}: {uploaded_file.name} ---\n"
HeaderShifted(i, name) ==
    <<"-", "-", "-", " ", "F", "i", "l", "e", " ">> \o IntToStr(i - 1)
        \o <<":", " ">> \o name \o <<" ", "-", "-", "-", "\n">>

Header(i, name) ==
    <<"-", "-", "-", " ", "F", "i", "l", "e", " ">> \o IntToStr(i)
        \o <<":", " ">> \o name \o <<" ", "-", "-", "-", "\n">>

\* ---------------------------------------------------------------- inputs
\* The uploads a user can pick from: a valid UTF-8 text file ("a\nb" and a
\* two-byte character), a text file with an invalid byte, a well-formed
\* document with paragraphs "a", "b", "" and a malformed one, and a file whose
\* declared MIME type is neither of the two the loop recognises.
Files == {
    [name |-> <<"t">>, type |-> TextPlain, bytes |-> <<97, 10, 98, 195, 169>>,
     paragraphs |-> <<>>, wellformed |-> FALSE],
    [name |-> <<"u">>, type |-> TextPlain, bytes |-> <<97, 255>>,
     paragraphs |-> <<>>, wellformed |-> FALSE],
    [name |-> <<"d">>, type |-> DocxType, bytes |-> <<>>,
     paragraphs |-> <<<<"a">>, <<"b">>, <<>>>>, wellformed |-> TRUE],
    [name |-> <<"m">>, type |-> DocxType, bytes |-> <<>>,
     paragraphs |-> <<>>, wellformed |-> FALSE],
    [name |-> <<"p">>, type |-> PdfType, bytes |-> <<>>,
     paragraphs |-> <<>>, wellformed |-> FALSE] }

Keys == {<<>>, <<"k">>}

\* what crew.kickoff() may return in the interactive model
Reports == { <<>>, <<"a">>, <<" ", "a", "\n", "\n", "b", " ">> }

ReportChars == {"a", " ", "\n"}

AllReports == UNION { [1..n -> ReportChars] : n \in 0..MaxReportLen }

Supported(f) == f.type \in {TextPlain, DocxType}

\* ---------------------------------------------------------------- lines 48-66
\* constructed: AzureChatOpenAI(...) returned (TRUE) or raised (FALSE)
LlmInitBound(key, constructed) ==
    IF key # <<>> THEN "client" ELSE "unbound"

LlmInit(key, constructed) ==
    IF key # <<>> /\ constructed THEN "client" ELSE "unbound"

ConnMessage(key, constructed) ==
    IF key = <<>> THEN "key_warning"
    ELSE IF constructed THEN "conn_success" ELSE "conn_error"

\* ---------------------------------------------------------------- lines 82-86
NoFilesGuardOff(files) == FALSE

\* `if not uploaded_files` (line 82)
NoFilesGuard(files) == files = <<>>

NoKeyGuardOff(key) == FALSE

\* `elif not azure_api_key` (line 84)
NoKeyGuard(key) == key = <<>>

\* ---------------------------------------------------------------- lines 88-96
\* One iteration of the loop.  st = [content, bound, file_content, appended,
\* raisedAt, error].  file_content is a global of the script run: an iteration
\* that assigns nothing to it reads the value the previous iteration left, and
\* reading it unbound raises NameError at line 96, after line 95 has appended
\* the header.
LoopBody(st, i, f) ==
    LET ext == IF f.type = TextPlain THEN Utf8Decode(f.bytes)
               ELSE IF f.type = DocxType THEN read_docx(f)
               ELSE [ok |-> st.bound, text |-> st.file_content]
        withHeader == st.content \o Header(i, f.name)
    IN  IF Supported(f) /\ ~ext.ok
        THEN [st EXCEPT !.raisedAt = i,
                        !.error = IF f.type = TextPlain THEN "UnicodeDecodeError"
                                  ELSE "BadZipFile"]
        ELSE IF ~ext.ok
        THEN [st EXCEPT !.content = withHeader, !.raisedAt = i, !.error = "NameError"]
        ELSE [st EXCEPT !.content = withHeader \o ext.text \o <<"\n", "\n">>,
                        !.bound = TRUE,
                        !.file_content = ext.text,
                        !.appended = Append(st.appended, ext.text)]

RECURSIVE Loop(_, _, _)
Loop(files, i, st) ==
    IF i > Len(files) \/ st.raisedAt # 0 THEN st
    ELSE Loop(files, i + 1, LoopBody(st, i, files[i]))

LoopStart(content) ==
    [content |-> content, bound |-> FALSE, file_content |-> <<>>,
     appended |-> <<>>, raisedAt |-> 0, error |-> "none"]

\* the mutated loop keeps what the session held
ProcessFilesNoReset(files, old) == Loop(files, 1, LoopStart(old))

\* line 88 resets the session field, lines 89-96 rebuild it
ProcessFiles(files, old) == Loop(files, 1, LoopStart(<<>>))

\* ---------------------------------------------------------------- lines 100-150
\* The try block.  engine: "setup_raises" (Agent/Task/Crew construction raises),
\* "kickoff_raises", or "returns" with result.  [outcome, invoked, final_report]
TryBlockClearing(llmv, engine, result, report) ==
    IF llmv = "unbound"
    THEN [outcome |-> "setup_raised", invoked |-> FALSE, final_report |-> <<>>]
    ELSE IF engine = "setup_raises"
    THEN [outcome |-> "setup_raised", invoked |-> FALSE, final_report |-> <<>>]
    ELSE IF engine = "kickoff_raises"
    THEN [outcome |-> "kickoff_raised", invoked |-> TRUE, final_report |-> <<>>]
    ELSE [outcome |-> "succeeded", invoked |-> TRUE, final_report |-> result]

TryBlock(llmv, engine, result, report) ==
    IF llmv = "unbound"
    THEN [outcome |-> "setup_raised", invoked |-> FALSE, final_report |-> report]
    ELSE IF engine = "setup_raises"
    THEN [outcome |-> "setup_raised", invoked |-> FALSE, final_report |-> report]
    ELSE IF engine = "kickoff_raises"
    THEN [outcome |-> "kickoff_raised", invoked |-> TRUE, final_report |-> report]
    ELSE [outcome |-> "succeeded", invoked |-> TRUE, final_report |-> result]

\* ---------------------------------------------------------------- lines 155-160
\* str.split('\n')
RECURSIVE SplitFrom(_, _)
SplitFrom(s, cur) ==
    IF s = <<>> THEN <<cur>>
    ELSE IF Head(s) = "\n" THEN <<cur>> \o SplitFrom(Tail(s), <<>>)
    ELSE SplitFrom(Tail(s), Append(cur, Head(s)))

Split(s) == SplitFrom(s, <<>>)

\* str.strip()
RECURSIVE LStrip(_)
LStrip(s) ==
    IF s # <<>> /\ Head(s) \in Whitespace THEN LStrip(Tail(s)) ELSE s

RECURSIVE RStrip(_)
RStrip(s) ==
    IF s # <<>> /\ s[Len(s)] \in Whitespace THEN RStrip(SubSeq(s, 1, Len(s) - 1))
    ELSE s

Strip(s) == RStrip(LStrip(s))

SelectNonEmpty(lines) == SelectSeq(lines, LAMBDA l : l # <<>>)

\* the mutated export skips empty lines
ReportLinesSkipEmpty(report) == SelectNonEmpty(Split(report))

\* the lines the for statement of line 158 iterates over
ReportLines(report) == Split(report)

TitleText ==
    <<"I", "n", "d", "u", "s", "t", "r", "y", " ", "I", "n", "s", "i", "g", "h", "t", "s",
      " ", "R", "e", "p", "o", "r", "t">>

\* Pt(11), line 160
FontPt == 11

ExportDoc(report) ==
    <<[style |-> "Heading 1", text |-> TitleText, size |-> 0]>>
    \o [k \in 1..Len(ReportLines(report)) |->
            [style |-> "Normal", text |-> Strip(ReportLines(report)[k]), size |-> FontPt]]

\* ---------------------------------------------------------------- the page
TypeOK ==
    /\ azure_api_key \in Keys
    /\ uploaded_files \in Seq(Files) /\ Len(uploaded_files) <= MaxFiles
    /\ button \in BOOLEAN
    /\ llm \in {"client", "unbound"}
    /\ outcome \in {"none", "no_files", "no_key", "extraction_raised", "no_content",
                    "setup_raised", "kickoff_raised", "succeeded"}
    /\ invoked \in BOOLEAN
    /\ raisedAt \in 0..MaxFiles
    /\ download_offered \in BOOLEAN

\* first execution of the script in a new session: no key, no files, no click
Init ==
    /\ azure_api_key = <<>>
    /\ uploaded_files = <<>>
    /\ combined_content = <<>>
    /\ final_report = <<>>
    /\ button = FALSE
    /\ llm = "unbound"
    /\ outcome = "none"
    /\ invoked = FALSE
    /\ raisedAt = 0
    /\ appended = <<>>
    /\ shown = {"key_warning"}
    /\ download_offered = FALSE
    /\ doc = <<>>

\* An execution in which the button is not clicked: lines 43-78, then 155-171.
Rerun(key, files, constructed) ==
    /\ azure_api_key' = key
    /\ uploaded_files' = files
    /\ llm' = LlmInit(key, constructed)
    /\ button' = FALSE
    /\ outcome' = "none"
    /\ invoked' = FALSE
    /\ raisedAt' = 0
    /\ appended' = <<>>
    /\ shown' = {ConnMessage(key, constructed)}
    /\ download_offered' = (final_report # <<>>)
    /\ doc' = IF final_report # <<>> THEN ExportDoc(final_report) ELSE <<>>
    /\ UNCHANGED session

EnterKey ==
    \E key \in Keys, constructed \in BOOLEAN :
        /\ key # azure_api_key
        /\ Rerun(key, uploaded_files, constructed)

AddFile ==
    \E f \in Files, constructed \in BOOLEAN :
        /\ Len(uploaded_files) < MaxFiles
        /\ Rerun(azure_api_key, Append(uploaded_files, f), constructed)

RemoveFile ==
    \E i \in DOMAIN uploaded_files, constructed \in BOOLEAN :
        Rerun(azure_api_key,
              SubSeq(uploaded_files, 1, i - 1)
                  \o SubSeq(uploaded_files, i + 1, Len(uploaded_files)),
              constructed)

\* the temperature slider is moved (line 72): the value reaches only the agents
MoveSlider ==
    \E constructed \in BOOLEAN : Rerun(azure_api_key, uploaded_files, constructed)

\* An execution in which the button is clicked: lines 43-171.
Generate(constructed, engine, result) ==
    LET conn == ConnMessage(azure_api_key, constructed)
        llmv == LlmInit(azure_api_key, constructed)
        st   == ProcessFiles(uploaded_files, combined_content)
        try  == TryBlock(llmv, engine, result, final_report)
    IN
    /\ button' = TRUE
    /\ llm' = llmv
    /\ UNCHANGED <<azure_api_key, uploaded_files>>
    /\ IF NoFilesGuard(uploaded_files)
       THEN /\ outcome' = "no_files"
            /\ shown' = {conn, "no_files_error"}
            /\ invoked' = FALSE /\ raisedAt' = 0 /\ appended' = <<>>
            /\ UNCHANGED session
            /\ download_offered' = (final_report # <<>>)
            /\ doc' = IF final_report # <<>> THEN ExportDoc(final_report) ELSE <<>>
       ELSE IF NoKeyGuard(azure_api_key)
       THEN /\ outcome' = "no_key"
            /\ shown' = {conn, "no_key_error"}
            /\ invoked' = FALSE /\ raisedAt' = 0 /\ appended' = <<>>
            /\ UNCHANGED session
            /\ download_offered' = (final_report # <<>>)
            /\ doc' = IF final_report # <<>> THEN ExportDoc(final_report) ELSE <<>>
       ELSE IF st.raisedAt # 0
       THEN \* the exception leaves the script: Streamlit shows it and stops the run
            /\ outcome' = "extraction_raised"
            /\ shown' = {conn, "uncaught_exception"}
            /\ invoked' = FALSE /\ raisedAt' = st.raisedAt /\ appended' = st.appended
            /\ combined_content' = st.content
            /\ UNCHANGED final_report
            /\ download_offered' = FALSE
            /\ doc' = <<>>
       ELSE IF st.content = <<>>
       THEN /\ outcome' = "no_content"
            /\ shown' = {conn, "no_content_error"}
            /\ invoked' = FALSE /\ raisedAt' = 0 /\ appended' = st.appended
            /\ combined_content' = st.content
            /\ UNCHANGED final_report
            /\ download_offered' = (final_report # <<>>)
            /\ doc' = IF final_report # <<>> THEN ExportDoc(final_report) ELSE <<>>
       ELSE /\ outcome' = try.outcome
            /\ shown' = {conn, IF try.outcome = "succeeded" THEN "success"
                               ELSE "handler_error"}
            /\ invoked' = try.invoked /\ raisedAt' = 0 /\ appended' = st.appended
            /\ combined_content' = st.content
            /\ final_report' = try.final_report
            /\ download_offered' = (try.final_report # <<>>)
            /\ doc' = IF try.final_report # <<>> THEN ExportDoc(try.final_report)
                      ELSE <<>>

ClickGenerate ==
    \E constructed \in BOOLEAN, engine \in {"setup_raises", "kickoff_raises", "returns"},
       result \in Reports :
        Generate(constructed, engine, result)

Next == EnterKey \/ AddFile \/ RemoveFile \/ MoveSlider \/ ClickGenerate

Spec == Init /\ [][Next]_vars

\* A session that holds a report while the page shows none: the execution that
\* followed the successful one was stopped by an exception of the file loop.
\* The next execution builds the document from the report.
InitExport ==
    /\ azure_api_key = <<"k">>
    /\ uploaded_files = <<CHOOSE f \in Files : f.name = <<"u">> >>
    /\ combined_content = <<>>
    /\ final_report \in AllReports \ {<<>>}
    /\ button = TRUE
    /\ llm = "client"
    /\ outcome = "extraction_raised"
    /\ invoked = FALSE
    /\ raisedAt = 1
    /\ appended = <<>>
    /\ shown = {"conn_success", "uncaught_exception"}
    /\ download_offered = FALSE
    /\ doc = <<>>

SpecExport == InitExport /\ [][MoveSlider]_vars

\* ================================================================ claims
GuardsPassed == button /\ outcome \notin {"none", "no_files", "no_key"}

AllSupported == \A i \in DOMAIN uploaded_files : Supported(uploaded_files[i])

\* C1: after a click in which crew.kickoff raises, the page shows an error and
\* offers no download button, whatever happened earlier in the session.
C1_NoDownloadAfterFailure ==
    (button /\ outcome = "kickoff_raised")
        => ("handler_error" \in shown /\ ~download_offered)

\* C2: crew.kickoff is invoked only by a click made with at least one file and
\* a non-empty key; a click with no files or with an empty key shows the inline
\* error of its guard and goes no further (nothing invoked, session untouched
\* by the loop, no handler error).
C2_GuardsBeforeKickoff ==
    /\ invoked => (button /\ uploaded_files # <<>> /\ azure_api_key # <<>>)
    /\ (button /\ uploaded_files = <<>>)
           => (outcome = "no_files" /\ "no_files_error" \in shown /\ ~invoked)
    /\ (button /\ uploaded_files # <<>> /\ azure_api_key = <<>>)
           => (outcome = "no_key" /\ "no_key_error" \in shown /\ ~invoked)

C2_Witness ==
    /\ button /\ uploaded_files # <<>> /\ azure_api_key = <<>>
    /\ "no_key_error" \in shown

\* the header line of the i-th file, as the claim words it
MarkerAt(s, p, i, name) ==
    LET h == <<"-", "-", "-", " ", "F", "i", "l", "e", " ", DigitChar[i + 1], ":", " ">>
                 \o name \o <<" ", "-", "-", "-", "\n">>
    IN  p + Len(h) - 1 <= Len(s) /\ SubSeq(s, p, p + Len(h) - 1) = h

MarkerLen(name) == 12 + Len(name) + 5

\* the text each supported input holds, written out
ExpectedText(f) ==
    CASE f.name = <<"t">> -> <<"a", "\n", "b", "e'">>
      [] f.name = <<"d">> -> <<"a", "\n", "b", "\n">>
      [] OTHER -> <<"?", "?">>

\* s, from position p on, is the segments of files i..N and nothing else:
\* marker of file i, its text verbatim, a blank line, then the next segment
RECURSIVE SegmentsFrom(_, _, _, _)
SegmentsFrom(s, files, i, p) ==
    IF i > Len(files) THEN p = Len(s) + 1
    ELSE LET t == ExpectedText(files[i])
             q == p + MarkerLen(files[i].name)
         IN  /\ MarkerAt(s, p, i, files[i].name)
             /\ q + Len(t) + 1 <= Len(s)
             /\ SubSeq(s, q, q + Len(t) - 1) = t
             /\ s[q + Len(t)] = "\n" /\ s[q + Len(t) + 1] = "\n"
             /\ SegmentsFrom(s, files, i + 1, q + Len(t) + 2)

\* C3: after a run over N supported files whose extraction succeeds, the
\* combined content is exactly N segments in upload order: the i-th starts with
\* the marker numbered i naming the i-th file and holds that file's text
\* verbatim between its marker and the next one.
C3_MarkersAndTexts ==
    (GuardsPassed /\ AllSupported /\ raisedAt = 0)
        => SegmentsFrom(combined_content, uploaded_files, 1, 1)

C3_Witness ==
    /\ GuardsPassed /\ AllSupported /\ raisedAt = 0
    /\ Len(uploaded_files) = 2
    /\ uploaded_files[1].name = <<"d">> /\ uploaded_files[2].name = <<"t">>
    /\ SegmentsFrom(combined_content, uploaded_files, 1, 1)

\* C4: a file of an unrecognised type adds no text to the combined content and
\* raises no error, at any position of the upload sequence.
C4_UnsupportedIsNoOp ==
    \A i \in DOMAIN uploaded_files :
        (GuardsPassed /\ ~Supported(uploaded_files[i]) /\ (raisedAt = 0 \/ raisedAt >= i))
            => (raisedAt # i /\ (Len(appended) >= i => appended[i] = <<>>))

\* C5: an exception raised while extracting a file's text is caught by the
\* handler of the try block: its error is displayed and crew.kickoff is not
\* invoked.
C5_ExtractionErrorHandled ==
    (button /\ raisedAt # 0 /\ Supported(uploaded_files[raisedAt]))
        => ("handler_error" \in shown /\ ~invoked)

\* positions of the newlines of s, and the k-th line between them
Newlines(s) == {p \in 1..Len(s) : s[p] = "\n"}

NewlinesBefore(s, p) == Cardinality({q \in Newlines(s) : q < p})

LineStart(s, k) ==
    IF k = 1 THEN 1
    ELSE 1 + CHOOSE p \in Newlines(s) : NewlinesBefore(s, p) = k - 2

LineEnd(s, k) ==
    IF k = Cardinality(Newlines(s)) + 1 THEN Len(s)
    ELSE (CHOOSE p \in Newlines(s) : NewlinesBefore(s, p) = k - 1) - 1

\* t is l without its leading and trailing whitespace
IsStripOf(t, l) ==
    \E a \in 1..(Len(l) + 1), b \in 0..Len(l) :
        /\ t = SubSeq(l, a, b)
        /\ \A q \in 1..(a - 1) : l[q] \in Whitespace
        /\ \A q \in (b + 1)..Len(l) : l[q] \in Whitespace
        /\ t # <<>> => (t[1] \notin Whitespace /\ t[Len(t)] \notin Whitespace)

\* C6: whenever a report is present and the page is rendered, the document is
\* the title heading followed by one paragraph per newline-delimited line of
\* the report, the k-th paragraph holding the k-th line (stripped), empty lines
\* included.
C6_ParagraphPerLine ==
    download_offered =>
        /\ final_report # <<>>
        /\ Len(doc) = 1 + Cardinality(Newlines(final_report)) + 1
        /\ doc[1].style = "Heading 1" /\ doc[1].text = TitleText
        /\ \A k \in 1..(Len(doc) - 1) :
               /\ doc[k + 1].style = "Normal"
               /\ IsStripOf(doc[k + 1].text,
                            SubSeq(final_report, LineStart(final_report, k),
                                   LineEnd(final_report, k)))

C6_Witness ==
    /\ download_offered
    /\ \E p \in 1..(Len(final_report) - 2) :
           final_report[p] = "\n" /\ final_report[p + 1] = "\n"
               /\ final_report[p + 2] = "a"
    /\ Len(doc) = 4 /\ doc[3].text = <<>> /\ doc[4].text = <<"a">>

\* C7: whenever crew.kickoff is invoked the combined content is non-empty, and
\* the "No content to process" branch is never taken.
C7_ContentNonEmpty ==
    /\ outcome # "no_content"
    /\ "no_content_error" \notin shown
    /\ invoked => combined_content # <<>>

C7_Witness == button /\ invoked /\ combined_content # <<>>

\* C8: the final report changes only in a click whose orchestration run
\* returned: a click rejected by a guard or ended by an exception, and every
\* other execution, leaves it as it was.
C8_ReportWrittenOnlyOnSuccess ==
    [][final_report' # final_report
           => (button' /\ outcome' = "succeeded" /\ invoked')]_vars

C8_Witness ==
    /\ button /\ outcome \in {"kickoff_raised", "setup_raised"}
    /\ final_report # <<>>

FirstMarkers(s) ==
    Cardinality({p \in 1..Len(s) :
        p + 11 <= Len(s)
        /\ SubSeq(s, p, p + 11)
               = <<"-", "-", "-", " ", "F", "i", "l", "e", " ", "1", ":", " ">>})

\* C10: the combined content a guard-passing run leaves depends only on that
\* run's files: nothing of the earlier content survives (it holds the marker of
\* a first file at most once, at its start), and a run over the same files as
\* the run before it leaves the same content.
C10_ContentFromFilesOnly ==
    [][(button' /\ outcome' \notin {"none", "no_files", "no_key"})
           => /\ FirstMarkers(combined_content') <= 1
              /\ combined_content' # <<>>
                   => MarkerAt(combined_content', 1, 1, uploaded_files'[1].name)
              /\ GuardsPassed => combined_content' = combined_content]_vars

C10_Witness ==
    /\ GuardsPassed /\ Len(uploaded_files) = 2 /\ raisedAt = 0
    /\ outcome = "kickoff_raised" /\ final_report # <<>>
    /\ FirstMarkers(combined_content) = 1

====
